---- MODULE Spec2Model ----
(***************************************************************************)
(* Neirn_SvActorReposition.js: side-view party battler positions.         *)
(*                                                                         *)
(* The plugin keeps an array `positions` of records {parentIndex, x, y}.  *)
(* BattleManager.startBattle is patched so that calculateBattlePositions   *)
(* writes realX/realY on every record before the host's own startBattle    *)
(* runs, and Sprite_Actor.prototype.setActorHome is patched to read them.  *)
(*                                                                         *)
(* calculateBattlePositions is modelled statement by statement: the        *)
(* recursion of recursiveCalcPos is an explicit stack of frames.  JS       *)
(* indices are 0-based; sequence element i+1 holds positions[i].           *)
(***************************************************************************)
EXTENDS Integers, Sequences, FiniteSets, TLC

\* ---------------------------------------------------------------- bounds
MaxN == 3          \* longest enumerated positions array
MaxBattles == 2    \* startBattle events explored

\* ------------------------------------------------------- JavaScript values
\* realX / realY hold a number, or are unset (undefined), or are NaN
Num(n) == [k |-> "number", v |-> n]
Undefined == [k |-> "undefined", v |-> 0]
NaN == [k |-> "NaN", v |-> 0]

IsNumber(a) == a.k = "number"

\* a + b where a is a number and b is read from a realX / realY field:
\* undefined converts to NaN, and NaN is absorbing
JsAddUndefinedAsZero(a, b) ==
    IF b.k = "number" THEN Num(a + b.v)
    ELSE IF b.k = "undefined" THEN Num(a)
    ELSE NaN

JsAdd(a, b) == IF b.k = "number" THEN Num(a + b.v) ELSE NaN

\* ------------------------------------------------------------ configuration
\* (x, y) offsets a record may carry; x and y differ so that a mix-up shows
Offsets == { <<32, 48>>, <<-5, 7>> }

\* a record as PluginManagerEx.createParameter delivers it: no realX / realY
Record(p, o) ==
    [parentIndex |-> p, x |-> o[1], y |-> o[2], realX |-> Undefined, realY |-> Undefined]

\* parentIndex ranges over -1 (no parent), every index, and one index past the end
Records == { Record(p, o) : p \in -1..MaxN, o \in Offsets }

Configs == UNION { [1..n -> Records] : n \in 0..MaxN }

\* the @default of the positions parameter
DefaultPositions ==
    << Record(-1, <<600, 280>>), Record(0, <<32, 48>>),
       Record(1, <<32, 48>>), Record(2, <<32, 48>>) >>

\* arguments a caller may hand to startBattle
ArgValues == { <<>>, <<"a">> }

\* indices the host may hand to setActorHome (party index; -1 and one past MaxN included)
HomeIndices == -1..(MaxN + 1)

VARIABLES
    positions,   \* the plugin parameter array, with realX / realY
    visited,     \* the visited array of the running pass
    stack,       \* frames of recursiveCalcPos, innermost last
    index,       \* the for-loop variable of calculateBattlePositions
    pc,          \* "idle", "calc" (inside calculateBattlePositions), "host" (inside _startBattle)
    args,        \* arguments of the running startBattle call
    events,      \* number of startBattle calls so far
    passes,      \* number of completed calculateBattlePositions calls
    hostCalls,   \* argument lists _startBattle was applied to, one per call
    writes,      \* per record: assignments to realX / realY in the running or last pass
    home,        \* what the last setActorHome call of the current battle did
    firstPass    \* realX / realY of every record at the end of the first pass

vars == << positions, visited, stack, index, pc, args, events, passes,
           hostCalls, writes, home, firstPass >>

N == Len(positions)

\* the (realX, realY) of every record
Real(ps) == [i \in 1..Len(ps) |-> << ps[i].realX, ps[i].realY >>]

NoHome == [index |-> -2, setHome |-> <<>>, orig |-> <<>>]

Init ==
    /\ positions \in Configs \cup {DefaultPositions}
    /\ visited = <<>>
    /\ stack = <<>>
    /\ index = 0
    /\ pc = "idle"
    /\ args = <<>>
    /\ events = 0
    /\ passes = 0
    /\ hostCalls = <<>>
    /\ writes = [i \in 1..Len(positions) |-> 0]
    /\ home = NoHome
    /\ firstPass = <<>>

\* ------------------------------------------------------ BattleManager.startBattle
\* the call omitted: the host's startBattle runs without a resolution pass
StartBattleNoPass(a) ==
    /\ pc = "idle"
    /\ events < MaxBattles
    /\ pc' = "host"
    /\ args' = a
    /\ events' = events + 1
    /\ hostCalls' = Append(hostCalls, a)
    /\ home' = NoHome
    /\ UNCHANGED << positions, visited, stack, index, passes, writes, firstPass >>

\* entry of the patched startBattle and of calculateBattlePositions:
\* a fresh visited array filled with false, the loop variable at 0
StartBattle(a) ==
    /\ pc = "idle"
    /\ events < MaxBattles
    /\ pc' = "calc"
    /\ args' = a
    /\ events' = events + 1
    /\ visited' = [i \in 1..N |-> FALSE]
    /\ stack' = <<>>
    /\ index' = 0
    /\ writes' = [i \in 1..N |-> 0]
    /\ home' = NoHome
    /\ UNCHANGED << positions, passes, hostCalls, firstPass >>

\* ------------------------------------------------------------ recursiveCalcPos
Top == stack[Len(stack)]

Curr == positions[Top.index + 1]

\* if (visited[index]) return;
AlreadyVisitedNever(i) == FALSE

AlreadyVisited(i) == visited[i + 1]

\* parentIndex < 0 || parentIndex >= positions.length
NoParent(p) == p < 0 \/ p >= N

\* return from the innermost frame; a return to the for loop runs index++
Return ==
    /\ stack' = SubSeq(stack, 1, Len(stack) - 1)
    /\ index' = IF Len(stack) = 1 THEN index + 1 ELSE index

\* for (let index = 0; index < positions.length; index++) recursiveCalcPos(index)
LoopCall ==
    /\ pc = "calc"
    /\ stack = <<>>
    /\ index < N
    /\ stack' = << [index |-> index, at |-> "entry"] >>
    /\ UNCHANGED << positions, visited, index, pc, args, events, passes,
                    hostCalls, writes, home, firstPass >>

CalcVisitedReturn ==
    /\ pc = "calc"
    /\ stack # <<>>
    /\ Top.at = "entry"
    /\ AlreadyVisited(Top.index)
    /\ Return
    /\ UNCHANGED << positions, visited, pc, args, events, passes,
                    hostCalls, writes, home, firstPass >>

\* the no-parent branch with realY copied from x
CalcNoParentCopyX ==
    /\ pc = "calc"
    /\ stack # <<>>
    /\ Top.at = "entry"
    /\ ~AlreadyVisited(Top.index)
    /\ NoParent(Curr.parentIndex)
    /\ visited' = [visited EXCEPT ![Top.index + 1] = TRUE]
    /\ positions' = [positions EXCEPT ![Top.index + 1].realX = Num(Curr.x),
                                      ![Top.index + 1].realY = Num(Curr.x)]
    /\ writes' = [writes EXCEPT ![Top.index + 1] = @ + 1]
    /\ Return
    /\ UNCHANGED << pc, args, events, passes, hostCalls, home, firstPass >>

\* no parent: realX = x, realY = y
CalcNoParent ==
    /\ pc = "calc"
    /\ stack # <<>>
    /\ Top.at = "entry"
    /\ ~AlreadyVisited(Top.index)
    /\ NoParent(Curr.parentIndex)
    /\ visited' = [visited EXCEPT ![Top.index + 1] = TRUE]
    /\ positions' = [positions EXCEPT ![Top.index + 1].realX = Num(Curr.x),
                                      ![Top.index + 1].realY = Num(Curr.y)]
    /\ writes' = [writes EXCEPT ![Top.index + 1] = @ + 1]
    /\ Return
    /\ UNCHANGED << pc, args, events, passes, hostCalls, home, firstPass >>

\* the recursive call left out: the parent is read as it stands
CalcRecurseSkipped ==
    /\ pc = "calc"
    /\ stack # <<>>
    /\ Top.at = "entry"
    /\ ~AlreadyVisited(Top.index)
    /\ ~NoParent(Curr.parentIndex)
    /\ visited' = [visited EXCEPT ![Top.index + 1] = TRUE]
    /\ stack' = [stack EXCEPT ![Len(stack)].at = "ret"]
    /\ UNCHANGED << positions, index, pc, args, events, passes,
                    hostCalls, writes, home, firstPass >>

\* has a parent: mark visited, then recursiveCalcPos(parentIndex)
CalcRecurse ==
    /\ pc = "calc"
    /\ stack # <<>>
    /\ Top.at = "entry"
    /\ ~AlreadyVisited(Top.index)
    /\ ~NoParent(Curr.parentIndex)
    /\ visited' = [visited EXCEPT ![Top.index + 1] = TRUE]
    /\ stack' = Append([stack EXCEPT ![Len(stack)].at = "ret"],
                       [index |-> Curr.parentIndex, at |-> "entry"])
    /\ UNCHANGED << positions, index, pc, args, events, passes,
                    hostCalls, writes, home, firstPass >>

\* a parent whose position is not a number is treated as absent
CalcAfterParentCycleBreak ==
    /\ pc = "calc"
    /\ stack # <<>>
    /\ Top.at = "ret"
    /\ LET parent == positions[Curr.parentIndex + 1]
           px == IF IsNumber(parent.realX) THEN parent.realX ELSE Num(0)
           py == IF IsNumber(parent.realY) THEN parent.realY ELSE Num(0)
       IN positions' = [positions EXCEPT
                           ![Top.index + 1].realX = JsAdd(Curr.x, px),
                           ![Top.index + 1].realY = JsAdd(Curr.y, py)]
    /\ writes' = [writes EXCEPT ![Top.index + 1] = @ + 1]
    /\ Return
    /\ UNCHANGED << visited, pc, args, events, passes, hostCalls, home, firstPass >>

\* the recursive call has returned: realX = x + parent.realX, realY = y + parent.realY
CalcAfterParent ==
    /\ pc = "calc"
    /\ stack # <<>>
    /\ Top.at = "ret"
    /\ LET parent == positions[Curr.parentIndex + 1]
       IN positions' = [positions EXCEPT
                           ![Top.index + 1].realX = JsAdd(Curr.x, parent.realX),
                           ![Top.index + 1].realY = JsAdd(Curr.y, parent.realY)]
    /\ writes' = [writes EXCEPT ![Top.index + 1] = @ + 1]
    /\ Return
    /\ UNCHANGED << visited, pc, args, events, passes, hostCalls, home, firstPass >>

\* the for loop ends, calculateBattlePositions returns, and
\* _startBattle.apply(BattleManager, arguments) is entered
CalcDone ==
    /\ pc = "calc"
    /\ stack = <<>>
    /\ index >= N
    /\ pc' = "host"
    /\ passes' = passes + 1
    /\ hostCalls' = Append(hostCalls, args)
    /\ firstPass' = IF passes = 0 THEN Real(positions) ELSE firstPass
    /\ UNCHANGED << positions, visited, stack, index, args, events, writes, home >>

\* _startBattle returns, and with it the patched startBattle
HostReturn ==
    /\ pc = "host"
    /\ pc' = "idle"
    /\ UNCHANGED << positions, visited, stack, index, args, events, passes,
                    hostCalls, writes, home, firstPass >>

\* the steps of one resolution pass
CalcStep ==
    \/ LoopCall
    \/ CalcVisitedReturn
    \/ CalcNoParent
    \/ CalcRecurse
    \/ CalcAfterParent
    \/ CalcDone

\* ------------------------------------------------ Sprite_Actor.setActorHome
\* positions[index] is a record exactly for 0 <= index < positions.length
HasPosition(i) == i >= 0 /\ i < N

\* setHome called with the offsets instead of the resolved position
SetActorHomeOffsets(i) ==
    /\ pc \in {"idle", "host"}
    /\ home' = IF HasPosition(i)
               THEN [index |-> i,
                     setHome |-> << << Num(positions[i + 1].x), Num(positions[i + 1].y) >> >>,
                     orig |-> <<>>]
               ELSE [index |-> i, setHome |-> <<>>, orig |-> << <<i>> >>]
    /\ UNCHANGED << positions, visited, stack, index, pc, args, events, passes,
                    hostCalls, writes, firstPass >>

\* the host places an actor sprite; JS runs a handler to completion, so this
\* happens outside calculateBattlePositions: before or after a startBattle
\* call, or from within the host's own startBattle
SetActorHome(i) ==
    /\ pc \in {"idle", "host"}
    /\ home' = IF HasPosition(i)
               THEN [index |-> i,
                     setHome |-> << << positions[i + 1].realX, positions[i + 1].realY >> >>,
                     orig |-> <<>>]
               ELSE [index |-> i, setHome |-> <<>>, orig |-> << <<i>> >>]
    /\ UNCHANGED << positions, visited, stack, index, pc, args, events, passes,
                    hostCalls, writes, firstPass >>

Next ==
    \/ \E a \in ArgValues : StartBattle(a)
    \/ LoopCall
    \/ CalcVisitedReturn
    \/ CalcNoParent
    \/ CalcRecurse
    \/ CalcAfterParent
    \/ CalcDone
    \/ HostReturn
    \/ \E i \in HomeIndices : SetActorHome(i)

Spec == Init /\ [][Next]_vars

\* The resolution pass alone.  Which statements a pass executes depends on
\* parentIndex and visited only, never on x / y, so one offset suffices.
InitPass ==
    /\ Init
    /\ \A i \in 1..Len(positions) : << positions[i].x, positions[i].y >> = << 32, 48 >>

NextPass ==
    \/ \E a \in ArgValues : StartBattle(a)
    \/ LoopCall
    \/ CalcVisitedReturn
    \/ CalcNoParent
    \/ CalcRecurse
    \/ CalcAfterParent
    \/ CalcDone
    \/ HostReturn

\* JS runs calculateBattlePositions synchronously: once entered, its next
\* statement is always executed
PassSpec == InitPass /\ [][NextPass]_vars /\ WF_vars(CalcStep)

\* ------------------------------------------------------ reading the result
\* a resolution pass has completed and none is running
AfterPass == pc \in {"host", "idle"} /\ passes >= 1

Parent(i) == positions[i + 1].parentIndex

Indices == 0..(N - 1)

\* following parentIndex from record i reaches a record without parent
\* within fuel steps
RECURSIVE Rooted(_, _)
Rooted(i, fuel) ==
    IF NoParent(Parent(i)) THEN TRUE
    ELSE IF fuel = 0 THEN FALSE
    ELSE Rooted(Parent(i), fuel - 1)

\* sum of the x (c = 1) or y (c = 2) offsets of record i and its ancestors
RECURSIVE ChainSum(_, _, _)
ChainSum(i, c, fuel) ==
    LET own == IF c = 1 THEN positions[i + 1].x ELSE positions[i + 1].y
    IN IF NoParent(Parent(i)) \/ fuel = 0 THEN own
       ELSE own + ChainSum(Parent(i), c, fuel - 1)

\* the records met when following parentIndex from record i, i excluded
RECURSIVE Ancestors(_, _)
Ancestors(i, fuel) ==
    IF NoParent(Parent(i)) \/ fuel = 0 THEN {}
    ELSE {Parent(i)} \cup Ancestors(Parent(i), fuel - 1)

OnCycle(i) == i \in Ancestors(i, N)

\* parentIndex, x, y of every record
Config(ps) == [i \in 1..Len(ps) |-> << ps[i].parentIndex, ps[i].x, ps[i].y >>]

DefaultResult ==
    << << Num(600), Num(280) >>, << Num(632), Num(328) >>,
       << Num(664), Num(376) >>, << Num(696), Num(424) >> >>

\* ------------------------------------------------------------------ claims

\* C1: after a resolution pass every record whose parent chain ends at a
\* record without parent has realX = sum of the x offsets along the chain and
\* realY = sum of the y offsets, whatever the order of the indices; the
\* default configuration resolves to (600,280) (632,328) (664,376) (696,424).
C1_ChainSums ==
    AfterPass =>
        /\ \A i \in Indices :
              Rooted(i, N) =>
                 /\ positions[i + 1].realX = Num(ChainSum(i, 1, N))
                 /\ positions[i + 1].realY = Num(ChainSum(i, 2, N))
        /\ Config(positions) = Config(DefaultPositions) => Real(positions) = DefaultResult

\* a rooted record whose parent has a higher index has been resolved
C1_Witness ==
    /\ AfterPass
    /\ \E i \in Indices :
          /\ ~NoParent(Parent(i))
          /\ Parent(i) > i
          /\ Rooted(i, N)
          /\ positions[i + 1].realX = Num(ChainSum(i, 1, N))
          /\ positions[i + 1].realY = Num(ChainSum(i, 2, N))

\* C2: after a resolution pass every record whose parentIndex is negative or
\* >= N has realX = x and realY = y, whatever the other records hold and
\* whatever realX / realY held before the pass.
C2_NoParentIsOffset ==
    AfterPass =>
        \A i \in Indices :
           NoParent(Parent(i)) =>
              /\ positions[i + 1].realX = Num(positions[i + 1].x)
              /\ positions[i + 1].realY = Num(positions[i + 1].y)

\* a second pass has resolved a record whose parentIndex is past the end,
\* next to a record that is its own parent
C2_Witness ==
    /\ AfterPass
    /\ passes >= 2
    /\ \E i, j \in Indices :
          /\ Parent(i) >= N
          /\ positions[i + 1].realX = Num(positions[i + 1].x)
          /\ positions[i + 1].realY = Num(positions[i + 1].y)
          /\ Parent(j) = j

\* C3: a resolution pass terminates for every input, and the nesting depth of
\* recursiveCalcPos never exceeds N + 1.
C3_Terminates ==
    /\ [](Len(stack) <= N + 1)
    /\ (pc = "calc") ~> (pc = "host")

\* a pass over a configuration in which every record is on a cycle has returned
C3_Witness ==
    /\ pc = "host"
    /\ N >= 2
    /\ \A i \in Indices : OnCycle(i) /\ Ancestors(i, N) = Indices

\* C4: after a resolution pass every record has a numeric realX and realY,
\* records on or leading into a parent cycle included.
C4_AllDefined ==
    AfterPass =>
        \A i \in Indices :
           IsNumber(positions[i + 1].realX) /\ IsNumber(positions[i + 1].realY)

\* C5: in a parent cycle the member with the lowest index resolves as if it
\* had no parent (realX = x, realY = y) and the other members are offset from
\* their parent along the chain.
C5_LowestIndexWins ==
    AfterPass =>
        \A i \in Indices :
           OnCycle(i) =>
              IF \A j \in Ancestors(i, N) : j >= i
              THEN /\ positions[i + 1].realX = Num(positions[i + 1].x)
                   /\ positions[i + 1].realY = Num(positions[i + 1].y)
              ELSE /\ positions[i + 1].realX =
                         JsAdd(positions[i + 1].x, positions[Parent(i) + 1].realX)
                   /\ positions[i + 1].realY =
                         JsAdd(positions[i + 1].y, positions[Parent(i) + 1].realY)

\* C6: for an unmodified configuration the realX / realY of every record after
\* every later pass are the ones the first pass produced.
C6_Idempotent ==
    (AfterPass /\ passes >= 2) => Real(positions) = firstPass

\* a second pass has ended with a record resolved through its parent
C6_Witness ==
    /\ pc = "host"
    /\ passes = 2
    /\ Real(positions) = firstPass
    /\ \E i \in Indices : ~NoParent(Parent(i)) /\ IsNumber(positions[i + 1].realX)

\* C7: on every startBattle call a complete resolution pass over all records
\* finishes before the host's startBattle runs; a placement made during or
\* after the host's startBattle reads the positions of that completed pass;
\* the host's startBattle is invoked once per call, with the call's arguments.
C7_PassBeforeHost ==
    /\ pc = "host" =>
          /\ passes = events
          /\ stack = <<>>
          /\ index = N
          /\ \A i \in 1..N : visited[i] /\ writes[i] = 1
          /\ Len(hostCalls) = events
          /\ hostCalls[events] = args
    /\ pc = "idle" => passes = events /\ Len(hostCalls) = events
    /\ pc = "calc" => passes = events - 1 /\ Len(hostCalls) = events - 1
    /\ (events >= 1 /\ home.setHome # <<>>) =>
          /\ passes = events
          /\ home.setHome[1] = Real(positions)[home.index + 1]

\* during the host's startBattle of the second battle an actor has been
\* placed at a resolved position
C7_Witness ==
    /\ pc = "host"
    /\ events = 2
    /\ home.setHome # <<>>
    /\ IsNumber(home.setHome[1][1])

\* C8: setActorHome(index) with no record at the index invokes the host's
\* setActorHome with the same arguments and calls setHome not at all; with a
\* record at the index it calls setHome once with the record's (realX, realY)
\* and does not invoke the host's setActorHome.
C8_AnchorLookup ==
    home # NoHome =>
        IF HasPosition(home.index)
        THEN /\ home.setHome = << Real(positions)[home.index + 1] >>
             /\ home.orig = <<>>
        ELSE /\ home.setHome = <<>>
             /\ home.orig = << << home.index >> >>

\* after a pass, setActorHome was called for an index past the configured records
C8_Witness ==
    /\ AfterPass
    /\ home.index >= N
    /\ home.orig = << << home.index >> >>
    /\ home.setHome = <<>>

\* C9: within one pass realX / realY of every record is written exactly once,
\* and records sharing a parent add their offsets to the same parent position.
C9_WrittenOnce ==
    /\ \A i \in 1..N : writes[i] <= 1
    /\ pc = "calc" => \A i \in 1..N : writes[i] = 1 => visited[i]
    /\ AfterPass =>
          /\ \A i \in 1..N : writes[i] = 1
          /\ \A i, j \in Indices :
                (i # j /\ ~NoParent(Parent(i)) /\ Parent(i) = Parent(j)) =>
                   /\ positions[i + 1].realX =
                         JsAdd(positions[i + 1].x, positions[Parent(i) + 1].realX)
                   /\ positions[i + 1].realY =
                         JsAdd(positions[i + 1].y, positions[Parent(i) + 1].realY)

\* a pass has ended in which two records share a resolved parent
C9_Witness ==
    /\ AfterPass
    /\ \A i \in 1..N : writes[i] = 1
    /\ \E i, j \in Indices :
          /\ i # j
          /\ ~NoParent(Parent(i))
          /\ Parent(i) = Parent(j)
          /\ IsNumber(positions[Parent(i) + 1].realX)

====
